---- MODULE Spec2Model ----
(***************************************************************************)
(* Narration session controller of the reading module:                     *)
(*   core/tts_player.py    TTSPlayer (three process-wide channels)         *)
(*   core/stt_commands.py  normalize_command, listen_for_command           *)
(*   core/text_utils.py    split_into_sentences                            *)
(*   reading/read.py       main (chunk loop, pause menu, voice mode)       *)
(*                                                                         *)
(* The controller is one sequential thread.  A call it makes into a        *)
(* TTSPlayer is executed as the sequence of that method's shared-memory    *)
(* accesses (the queue todo), so that playback threads interleave with it  *)
(* exactly where the Python code lets them: no method of TTSPlayer takes   *)
(* the lock it creates, and stop() never joins.  time.sleep() is a point   *)
(* where any other thread may take any number of steps.                    *)
(***************************************************************************)
EXTENDS Integers, Sequences, FiniteSets, TLC

\* ------------------------------------------------------------------------
\* Bounds of the model
\* ------------------------------------------------------------------------
\* playback threads of the process that may be alive at the same time
MaxThreads == 2
\* longest decoded audio, in blocks of BLOCKSIZE frames
MaxBlocks == 1
MaxLongBlocks == 2

\* ------------------------------------------------------------------------
\* Program constants
\* ------------------------------------------------------------------------
\* blocksize=1024 of the OutputStream and of the chunk slicing
BLOCKSIZE == 1024

\* tts_main, tts_summary, tts_prompt
Channels == {"main", "summary", "prompt"}

\* ------------------------------------------------------------------------
\* Whether the value handed to play() is a str that names an existing file,
\* and whether sf.read() can decode that file, is the environment's choice
\* at the moment play() and sf.read() look at it.
\* ------------------------------------------------------------------------
\* data.shape[0] of a decoded file: k blocks, the last one half full
TotalFrames == {(k - 1) * BLOCKSIZE + 512 : k \in 1..MaxBlocks}

\* data.shape[0] of the longer files a client of one player may play
LongFrames == {(k - 1) * BLOCKSIZE + 512 : k \in (MaxBlocks + 1)..MaxLongBlocks}

Min(a, b) == IF a < b THEN a ELSE b

\* ========================================================================
\* Text.  A Python str is the sequence of its characters; the value None
\* where a str is expected is NoneText.
\* ========================================================================
NoneText == <<"None">>

\* what str.strip() and the regex class \s remove
Whitespace == {" ", "\t", "\n"}

\* the class [.!?] of the split pattern
Terminators == {".", "!", "?"}

RECURSIVE lstrip(_)
lstrip(s) == IF s # <<>> /\ Head(s) \in Whitespace THEN lstrip(Tail(s)) ELSE s

RECURSIVE rstrip(_)
rstrip(s) ==
    IF s # <<>> /\ s[Len(s)] \in Whitespace THEN rstrip(SubSeq(s, 1, Len(s) - 1)) ELSE s

\* str.strip()
strip(s) == rstrip(lstrip(s))

UpperToLower ==
    ("A" :> "a") @@ ("B" :> "b") @@ ("C" :> "c") @@ ("D" :> "d") @@ ("E" :> "e") @@
    ("F" :> "f") @@ ("G" :> "g") @@ ("H" :> "h") @@ ("I" :> "i") @@ ("J" :> "j") @@
    ("K" :> "k") @@ ("L" :> "l") @@ ("M" :> "m") @@ ("N" :> "n") @@ ("O" :> "o") @@
    ("P" :> "p") @@ ("Q" :> "q") @@ ("R" :> "r") @@ ("S" :> "s") @@ ("T" :> "t") @@
    ("U" :> "u") @@ ("V" :> "v") @@ ("W" :> "w") @@ ("X" :> "x") @@ ("Y" :> "y") @@
    ("Z" :> "z")

\* str.lower()
lower(s) ==
    [i \in 1..Len(s) |-> IF s[i] \in DOMAIN UpperToLower THEN UpperToLower[s[i]] ELSE s[i]]

\* v in t, for two str
Contains(v, t) == \E i \in 1..(Len(t) - Len(v) + 1) : SubSeq(t, i, i + Len(v) - 1) = v

\* " ".join(list)
RECURSIVE JoinSpace(_)
JoinSpace(l) ==
    IF l = <<>> THEN <<>>
    ELSE IF Len(l) = 1 THEN l[1]
    ELSE l[1] \o <<" ">> \o JoinSpace(Tail(l))

\* ------------------------------------------------------------------------
\* core/text_utils.py
\* ------------------------------------------------------------------------
\* default of min_len
DEFAULT_MIN_LEN == 10

\* where the pattern (?<=[.!?])\s+ can start to match: a whitespace
\* character right after a terminator
SplitPoints(s) == {i \in 2..Len(s) : s[i] \in Whitespace /\ s[i - 1] \in Terminators}

\* the last character of the whitespace run that starts at i (\s+ is greedy)
RunEnd(s, i) ==
    CHOOSE j \in i..Len(s) :
        /\ \A k \in i..j : s[k] \in Whitespace
        /\ j = Len(s) \/ s[j + 1] \notin Whitespace

\* re.split(r'(?<=[.!?])\s+', s)
RECURSIVE re_split(_)
re_split(s) ==
    IF SplitPoints(s) = {} THEN <<s>>
    ELSE LET i == CHOOSE x \in SplitPoints(s) : \A y \in SplitPoints(s) : x <= y
             j == RunEnd(s, i)
         IN  <<SubSeq(s, 1, i - 1)>> \o re_split(SubSeq(s, j + 1, Len(s)))

\* NonBlank without the test of chunk.strip()
NonBlankRaw(chunk) == chunk # <<>>

NonBlank(chunk) == chunk # <<>> /\ strip(chunk) # <<>>

\* [chunk.strip() for chunk in raw_chunks if chunk and chunk.strip()]
Cleaned(raw_chunks) ==
    LET kept == SelectSeq(raw_chunks, NonBlank)
    IN  [i \in 1..Len(kept) |-> strip(kept[i])]

\* MergeStep that appends every chunk: short chunks are not merged
MergeStepNever(acc, chunk, m) == Append(acc, chunk)

\* MergeStep that drops a short chunk instead of merging it
MergeStepDrops(acc, chunk, m) ==
    IF acc = <<>> THEN <<chunk>>
    ELSE IF Len(chunk) < m THEN acc ELSE Append(acc, chunk)

\* MergeStep with the length test written <= : a chunk of exactly min_len
\* characters is merged too
MergeStepInclusive(acc, chunk, m) ==
    IF acc = <<>> THEN <<chunk>>
    ELSE IF Len(chunk) <= m
         THEN [acc EXCEPT ![Len(acc)] = acc[Len(acc)] \o <<" ">> \o chunk]
         ELSE Append(acc, chunk)

\* MergeStep with the length test written len(chunk) < min_len - 1
MergeStepOffByOne(acc, chunk, m) ==
    IF acc = <<>> THEN <<chunk>>
    ELSE IF Len(chunk) < m - 1
         THEN [acc EXCEPT ![Len(acc)] = acc[Len(acc)] \o <<" ">> \o chunk]
         ELSE Append(acc, chunk)

\* the body of the for loop: the first chunk opens the list, a short chunk
\* is merged into the last sentence, any other chunk is appended
MergeStep(acc, chunk, m) ==
    IF acc = <<>> THEN <<chunk>>
    ELSE IF Len(chunk) < m
         THEN [acc EXCEPT ![Len(acc)] = acc[Len(acc)] \o <<" ">> \o chunk]
         ELSE Append(acc, chunk)

\* for chunk in cleaned: ...
RECURSIVE MergeLoop(_, _, _)
MergeLoop(cleaned, m, acc) ==
    IF cleaned = <<>> THEN acc
    ELSE MergeLoop(Tail(cleaned), m, MergeStep(acc, Head(cleaned), m))

split_into_sentences(t, m) ==
    IF t = <<>> THEN <<>>
    ELSE LET cleaned == Cleaned(re_split(t))
         IN  IF cleaned = <<>> THEN <<>> ELSE MergeLoop(cleaned, m, <<>>)

\* ------------------------------------------------------------------------
\* core/stt_commands.py: normalize_command
\* ------------------------------------------------------------------------
\* default of max_attempts
DEFAULT_MAX_ATTEMPTS == 3

\* the None that normalize_command and listen_for_command return
NoCommand == "None"

\* the dict VALID_COMMANDS in its insertion order
VALID_COMMANDS == <<
    [command |-> "resume",
     variants |-> <<<<"r", "e", "s", "u", "m", "e">>,
                    <<"c", "o", "n", "t", "i", "n", "u", "e">>,
                    <<"s", "t", "a", "r", "t">>>>],
    [command |-> "quit",
     variants |-> <<<<"q", "u", "i", "t">>,
                    <<"e", "x", "i", "t">>,
                    <<"e", "n", "d">>,
                    <<"r", "e", "a", "d">>,
                    <<"d", "e", "t", "e", "c", "t">>,
                    <<"s", "t", "o", "p">>>>],
    [command |-> "summary",
     variants |-> <<<<"s", "u", "m", "m", "a", "r", "y">>,
                    <<"s", "u", "m", "m", "a", "r", "i", "z", "e">>,
                    <<"s", "u", "m", "m", "a", "r", "i", "s", "e">>>>] >>

\* for v in variants: if v in text
AnyVariantIn(variants, t) == \E k \in 1..Len(variants) : Contains(variants[k], t)

\* for command, variants in VALID_COMMANDS.items(): ... return command
RECURSIVE FirstCommand(_, _)
FirstCommand(t, k) ==
    IF k > Len(VALID_COMMANDS) THEN NoCommand
    ELSE IF AnyVariantIn(VALID_COMMANDS[k].variants, t) THEN VALID_COMMANDS[k].command
    ELSE FirstCommand(t, k + 1)

\* normalize_command without the call of lower()
normalize_command_cased(t) ==
    IF t = NoneText \/ t = <<>> THEN NoCommand
    ELSE FirstCommand(strip(t), 1)

normalize_command(t) ==
    IF t = NoneText \/ t = <<>> THEN NoCommand
    ELSE FirstCommand(strip(lower(t)), 1)

VARIABLES
    \* ---- TTSPlayer fields, one player per channel ----
    thread,        \* self._thread: 0 is None, else the position of a Thread object
    is_paused,     \* self._is_paused
    is_stopped,    \* self._is_stopped
    threads,       \* the Thread objects of each player, running _playback_loop
    \* ---- the controller thread ----
    pc,            \* position of the controller in its code
    todo,          \* the rest of the TTSPlayer calls of the current statement
    ret,           \* value returned by the last is_playing() poll
    \* ---- split_into_sentences and main ----
    text,          \* the text to split (in main: the OCR result)
    min_len,       \* min_len of split_into_sentences
    sentences,     \* the list split_into_sentences returned
    current_index, \* main: current_index
    read_so_far,   \* main: read_so_far
    failures,      \* main, voice mode: failures
    \* ---- normalize_command and listen_for_command ----
    max_attempts,  \* max_attempts of listen_for_command
    attempts,      \* attempts; listen() is called once per increment
    stt_text,      \* the text listen() returned last
    command,       \* the value normalize_command / listen_for_command returned
    \* ---- observation ----
    detour         \* progress at the last pause or voice interrupt

playerVars == <<thread, is_paused, is_stopped, threads>>

ctlVars == <<pc, todo, ret>>

textVars == <<text, min_len, sentences>>

readVars == <<current_index, read_so_far, failures, detour>>

voiceVars == <<max_attempts, attempts, stt_text, command>>

dataVars == <<textVars, readVars, voiceVars>>

vars == <<playerVars, ctlVars, dataVars>>

\* no interrupt is being handled
NoDetour == [idx |-> -1, hist |-> <<>>, summarised |-> FALSE]

\* ------------------------------------------------------------------------
\* Thread objects.  threads[ch] lists the live threads of a player, oldest
\* first; a thread that returns leaves the list.  thread[ch] is 0 for None,
\* else the position of the Thread object it refers to.
\* ------------------------------------------------------------------------
\* self._thread.is_alive() for a handle i
Alive(ch, i) == i \in 1..Len(threads[ch])

AliveThreads(ch) == 1..Len(threads[ch])

\* a thread inside the while loop: its stream is started and it writes blocks
Streaming(ch, i) == threads[ch][i].at \in {"write", "paused"}

StreamingThreads(ch) == {i \in AliveThreads(ch) : Streaming(ch, i)}

Remove(seq, i) == SubSeq(seq, 1, i - 1) \o SubSeq(seq, i + 1, Len(seq))

\* threading.Thread(target=self._playback_loop, args=(audio_path,))
NewThread == [at |-> "load", frame_index |-> 0, total_frames |-> 0, late |-> -1]

\* the number of live playback threads of the process
LiveThreads == Len(threads["main"]) + Len(threads["summary"]) + Len(threads["prompt"])

\* TTSPlayer.__init__
TTSPlayerInit ==
    /\ thread = [ch \in Channels |-> 0]
    /\ is_paused = [ch \in Channels |-> FALSE]
    /\ is_stopped = [ch \in Channels |-> FALSE]
    /\ threads = [ch \in Channels |-> <<>>]

\* TTSPlayer.is_playing, evaluated in one piece
is_playing(ch) == thread[ch] # 0 /\ Alive(ch, thread[ch])

\* ------------------------------------------------------------------------
\* _playback_loop.  A thread is at "load" (in sf.read and the opening of the
\* stream), at "write" (in stream.write), at "paused" (in the sleep of the
\* PAUSE branch) or at "exit" (out of the loop, before self._thread = None).
\* Each action ends with the thread's next access to the player's fields.
\* ------------------------------------------------------------------------
\* the loop condition, the STOP test and the PAUSE test, lines 59-68:
\* where a thread with record r goes next
LoopTest(ch, r) ==
    IF r.frame_index >= r.total_frames THEN "exit"
    ELSE IF is_stopped[ch] THEN "exit"
    ELSE IF is_paused[ch] THEN "paused"
    ELSE "write"

SetThread(ch, i, r) == threads' = [threads EXCEPT ![ch][i] = r]

\* Observation, not a field of the program: r.late is -1 until stop() is
\* called on the player, its handle set, while the thread is inside the
\* loop; from then on it is the number of blocks the thread has written or
\* begun to write since, the block in flight at the stop included.
LateCap == 2

StoppedNow(r) ==
    IF r.late # -1 THEN r
    ELSE IF r.at = "write" THEN [r EXCEPT !.late = 1]
    ELSE IF r.at = "paused" THEN [r EXCEPT !.late = 0]
    ELSE r

MarkStopped(ch) ==
    threads' = [threads EXCEPT ![ch] = [i \in 1..Len(threads[ch]) |-> StoppedNow(threads[ch][i])]]

\* a thread that has left the loop; it reads data, total_frames and
\* frame_index no more
Left == [at |-> "exit", frame_index |-> 0, total_frames |-> 0, late |-> -1]

\* what the loop does to a thread's record after a turn that left
\* frame_index at f
Turn(ch, r, f) ==
    LET q == [r EXCEPT !.frame_index = f]
        to == LoopTest(ch, q)
    IN  IF to = "exit" THEN Left
        ELSE [q EXCEPT !.at = to,
                       !.late = IF to = "write" /\ q.late >= 0
                                THEN Min(q.late + 1, LateCap)
                                ELSE q.late]

\* the return of a thread: self._thread = None, the thread is dead
Return(ch, i) ==
    /\ threads' = [threads EXCEPT ![ch] = Remove(threads[ch], i)]
    /\ thread' = [thread EXCEPT ![ch] = 0]

\* sf.read() raises: the handle is cleared and the thread returns
LoadFail(ch, i) ==
    /\ threads[ch][i].at = "load"
    /\ Return(ch, i)
    /\ UNCHANGED <<is_paused, is_stopped, ctlVars, dataVars>>

\* sf.read() succeeds, the stream is opened and started, first loop test
LoadOk(ch, i) ==
    /\ threads[ch][i].at = "load"
    /\ \E n \in TotalFrames :
         SetThread(ch, i, Turn(ch, [threads[ch][i] EXCEPT !.total_frames = n], 0))
    /\ UNCHANGED <<thread, is_paused, is_stopped, ctlVars, dataVars>>

\* LoadOk for a file of more than MaxBlocks blocks
LoadOkLong(ch, i) ==
    /\ threads[ch][i].at = "load"
    /\ \E n \in LongFrames :
         SetThread(ch, i, Turn(ch, [threads[ch][i] EXCEPT !.total_frames = n], 0))
    /\ UNCHANGED <<thread, is_paused, is_stopped, ctlVars, dataVars>>

\* time.sleep(0.05); continue
PauseSleep(ch, i) ==
    /\ threads[ch][i].at = "paused"
    /\ SetThread(ch, i, Turn(ch, threads[ch][i], threads[ch][i].frame_index))
    /\ UNCHANGED <<thread, is_paused, is_stopped, ctlVars, dataVars>>

\* stream.write(chunk) returns; frame_index = chunk_end; next loop test
WriteBlock(ch, i) ==
    /\ threads[ch][i].at = "write"
    /\ LET r == threads[ch][i]
           chunk_end == Min(r.frame_index + BLOCKSIZE, r.total_frames)
       IN  SetThread(ch, i, Turn(ch, r, chunk_end))
    /\ UNCHANGED <<thread, is_paused, is_stopped, ctlVars, dataVars>>

\* WriteFail that returns from the except branch at once, the handle kept
WriteFailNoClear(ch, i) ==
    /\ threads[ch][i].at = "write"
    /\ threads' = [threads EXCEPT ![ch] = Remove(threads[ch], i)]
    /\ UNCHANGED <<thread, is_paused, is_stopped, ctlVars, dataVars>>

\* stream.write(chunk) raises: break
WriteFail(ch, i) ==
    /\ threads[ch][i].at = "write"
    /\ SetThread(ch, i, Left)
    /\ UNCHANGED <<thread, is_paused, is_stopped, ctlVars, dataVars>>

\* stream.stop(); stream.close(); self._thread = None; return
LoopExit(ch, i) ==
    /\ threads[ch][i].at = "exit"
    /\ Return(ch, i)
    /\ UNCHANGED <<is_paused, is_stopped, ctlVars, dataVars>>

\* every step of _playback_loop but the sleep of the PAUSE branch
playback_loop(ch) ==
    \E i \in AliveThreads(ch) :
        \/ LoadFail(ch, i)
        \/ LoadOk(ch, i)
        \/ WriteBlock(ch, i)
        \/ WriteFail(ch, i)
        \/ LoopExit(ch, i)

playback_loop_paused(ch) == \E i \in AliveThreads(ch) : PauseSleep(ch, i)

playback_loop_long(ch) == \E i \in AliveThreads(ch) : LoadOkLong(ch, i)

\* ------------------------------------------------------------------------
\* TTSPlayer methods as the controller executes them.  The head of todo is
\* the call (or the rest of the call) the controller performs next.
\* ------------------------------------------------------------------------
Op(o, ch, s) == [op |-> o, ch |-> ch, src |-> s]

\* the argument of a call that takes none
NoArg == <<>>

stop(ch) == <<Op("stop", ch, NoArg)>>

play(ch, s) == <<Op("play", ch, s)>>

pause(ch) == <<Op("pause", ch, NoArg)>>

resume(ch) == <<Op("resume", ch, NoArg)>>

\* one evaluation of X.is_playing(), the result left in ret
poll(ch) == <<Op("is_playing", ch, NoArg)>>

\* while X.is_playing(): time.sleep(0.05)
wait(ch) == <<Op("wait", ch, NoArg)>>

Running == pc # "crashed" /\ todo # <<>>

Cur == Head(todo)

\* StopBody without the test of self._thread
StopBodyAlways(ch) ==
    /\ is_stopped' = [is_stopped EXCEPT ![ch] = TRUE]
    /\ is_paused' = [is_paused EXCEPT ![ch] = FALSE]
    /\ MarkStopped(ch)
    /\ thread' = [thread EXCEPT ![ch] = 0]

\* the body of stop(): if self._thread: set _is_stopped, clear _is_paused,
\* sleep, sd.stop(); then self._thread = None.  No playback thread reads
\* self._thread, so the two writes are one step.
StopBody(ch) ==
    /\ IF thread[ch] # 0
       THEN /\ is_stopped' = [is_stopped EXCEPT ![ch] = TRUE]
            /\ is_paused' = [is_paused EXCEPT ![ch] = FALSE]
            /\ MarkStopped(ch)
       ELSE UNCHANGED <<is_stopped, is_paused, threads>>
    /\ thread' = [thread EXCEPT ![ch] = 0]

\* stop()
Stop ==
    /\ Running /\ Cur.op = "stop"
    /\ StopBody(Cur.ch)
    /\ todo' = Tail(todo)
    /\ UNCHANGED <<pc, ret, dataVars>>

\* PlayInvalid with both flags cleared before the test of the argument
PlayInvalidClears ==
    /\ Running /\ Cur.op = "play"
    /\ is_paused' = [is_paused EXCEPT ![Cur.ch] = FALSE]
    /\ is_stopped' = [is_stopped EXCEPT ![Cur.ch] = FALSE]
    /\ todo' = Tail(todo)
    /\ UNCHANGED <<thread, threads, pc, ret, dataVars>>

\* play(), lines 95-97: the argument is no str (speak returned None) or
\* names no file; play() returns at once
PlayInvalid ==
    /\ Running /\ Cur.op = "play"
    /\ todo' = Tail(todo)
    /\ UNCHANGED <<playerVars, pc, ret, dataVars>>

\* play(), lines 95-103: the argument names a file; self.stop(); sleep
PlayStop ==
    /\ Running /\ Cur.op = "play"
    /\ StopBody(Cur.ch)
    /\ todo' = <<Op("play_start", Cur.ch, Cur.src)>> \o Tail(todo)
    /\ UNCHANGED <<pc, ret, dataVars>>

\* PlayStart that leaves the two flags as stop(), pause() and resume() left them
PlayStartKeepsFlags ==
    /\ Running /\ Cur.op = "play_start"
    /\ LiveThreads < MaxThreads
    /\ threads' = [threads EXCEPT ![Cur.ch] = Append(@, NewThread)]
    /\ thread' = [thread EXCEPT ![Cur.ch] = Len(threads[Cur.ch]) + 1]
    /\ todo' = Tail(todo)
    /\ UNCHANGED <<is_paused, is_stopped, pc, ret, dataVars>>

\* play(), lines 105-114: clear both flags, create and start the thread
PlayStart ==
    /\ Running /\ Cur.op = "play_start"
    /\ LiveThreads < MaxThreads
    /\ is_paused' = [is_paused EXCEPT ![Cur.ch] = FALSE]
    /\ is_stopped' = [is_stopped EXCEPT ![Cur.ch] = FALSE]
    /\ threads' = [threads EXCEPT ![Cur.ch] = Append(@, NewThread)]
    /\ thread' = [thread EXCEPT ![Cur.ch] = Len(threads[Cur.ch]) + 1]
    /\ todo' = Tail(todo)
    /\ UNCHANGED <<pc, ret, dataVars>>

\* pause(), lines 123-125
Pause ==
    /\ Running /\ Cur.op = "pause"
    /\ IF thread[Cur.ch] # 0
       THEN is_paused' = [is_paused EXCEPT ![Cur.ch] = TRUE]
       ELSE UNCHANGED is_paused
    /\ todo' = Tail(todo)
    /\ UNCHANGED <<thread, is_stopped, threads, pc, ret, dataVars>>

\* resume(), lines 134-136
Resume ==
    /\ Running /\ Cur.op = "resume"
    /\ IF thread[Cur.ch] # 0
       THEN is_paused' = [is_paused EXCEPT ![Cur.ch] = FALSE]
       ELSE UNCHANGED is_paused
    /\ todo' = Tail(todo)
    /\ UNCHANGED <<thread, is_stopped, threads, pc, ret, dataVars>>

\* is_playing(), line 27, left operand: self._thread is not None
IsPlayingHandle ==
    /\ Running /\ Cur.op \in {"is_playing", "wait"}
    /\ IF thread[Cur.ch] = 0
       THEN /\ todo' = Tail(todo)
            /\ ret' = FALSE
       ELSE /\ todo' = <<Op(Cur.op \o "_alive", Cur.ch, Cur.src)>> \o Tail(todo)
            /\ UNCHANGED ret
    /\ UNCHANGED <<playerVars, pc, dataVars>>

\* is_playing(), line 27, right operand: self._thread.is_alive().  The
\* attribute is read a second time; on None the call raises AttributeError,
\* which nothing in the controller catches.
IsPlayingAlive ==
    /\ Running /\ Cur.op \in {"is_playing_alive", "wait_alive"}
    /\ IF thread[Cur.ch] = 0
       THEN /\ pc' = "crashed"
            /\ todo' = <<>>
            /\ UNCHANGED ret
       ELSE /\ ret' = Alive(Cur.ch, thread[Cur.ch])
            /\ todo' = IF Cur.op = "wait_alive" /\ Alive(Cur.ch, thread[Cur.ch])
                       THEN wait(Cur.ch) \o Tail(todo)
                       ELSE Tail(todo)
            /\ UNCHANGED pc
    /\ UNCHANGED <<playerVars, dataVars>>

\* play()
PlayCall ==
    \/ PlayInvalid
    \/ PlayStop
    \/ PlayStart

\* is_playing()
PollCall ==
    \/ IsPlayingHandle
    \/ IsPlayingAlive

TTSPlayer ==
    \/ Stop
    \/ PlayCall
    \/ PollCall

TTSPlayerPause ==
    \/ Pause
    \/ Resume

\* ========================================================================
\* The controller.  pc is the place where it continues once the TTSPlayer
\* calls of the statements before that place (todo) have returned.
\* ========================================================================
At(l) == pc = l /\ todo = <<>>

Goto(l, q) == pc' = l /\ todo' = q

\* tts_main.stop(); tts_summary.stop(); tts_prompt.stop()
StopAll == stop("main") \o stop("summary") \o stop("prompt")

\* speak(text): the path of the audio synthesized from text (or None, which
\* play() rejects, see PlayInvalid)
speak(t) == <<"speak", t>>

\* a prompt of main(): the cached file of speak_cached or a file of the
\* sounds directory, named by its file name
Prompt(name) == <<"file", name>>

\* summarize(text): the summarizer's answer, an opaque text that stands for
\* "a summary of text"
summarize(t) == <<"summarize">> \o t

\* ------------------------------------------------------------------------
\* core/stt_commands.py: listen_for_command
\* ------------------------------------------------------------------------
\* what listen() may return
Heard == {NoneText,
          <<"r", "e", "s", "u", "m", "e">>,
          <<"q", "u", "i", "t", " ", "p", "l", "e", "a", "s", "e">>,
          <<"S", "u", "m", "m", "a", "r", "y">>,
          <<"h", "e", "l", "l", "o">>}

\* speak_blocking("Listening for command..."), which returns at once when
\* speak gave None and else plays and waits; attempts = 0
ListenStart ==
    /\ At("listen")
    /\ attempts' = 0
    /\ \/ Goto("listen_loop", <<>>)
       \/ Goto("listen_loop", play("prompt", speak(<<"Listening for command...">>))
                              \o wait("prompt"))
    /\ UNCHANGED <<playerVars, ret, textVars, readVars, max_attempts, stt_text, command>>

\* ListenAttempt with the loop condition written attempts <= max_attempts
ListenAttemptInclusive ==
    /\ At("listen_loop")
    /\ attempts <= max_attempts
    /\ attempts' = attempts + 1
    /\ \E t \in Heard :
         /\ stt_text' = t
         /\ command' = normalize_command(t)
         /\ IF normalize_command(t) # NoCommand
            THEN Goto("listen_return", <<>>)
            ELSE IF attempts + 1 < max_attempts
                 THEN Goto("listen_loop", play("prompt", Prompt("i_did_not_catch_that"))
                                          \o wait("prompt"))
                 ELSE Goto("listen_loop", <<>>)
    /\ UNCHANGED <<playerVars, ret, textVars, readVars, max_attempts>>

\* ListenAttempt that keeps listening after a recognized command while
\* attempts remain
ListenAttemptNoReturn ==
    /\ At("listen_loop")
    /\ attempts < max_attempts
    /\ attempts' = attempts + 1
    /\ \E t \in Heard :
         /\ stt_text' = t
         /\ command' = normalize_command(t)
         /\ IF normalize_command(t) # NoCommand /\ attempts + 1 >= max_attempts
            THEN Goto("listen_return", <<>>)
            ELSE IF attempts + 1 < max_attempts
                 THEN Goto("listen_loop", play("prompt", Prompt("i_did_not_catch_that"))
                                          \o wait("prompt"))
                 ELSE Goto("listen_loop", <<>>)
    /\ UNCHANGED <<playerVars, ret, textVars, readVars, max_attempts>>

\* one turn of the while loop: listen, normalize, return the command or
\* play the retry prompt when attempts remain
ListenAttempt ==
    /\ At("listen_loop")
    /\ attempts < max_attempts
    /\ attempts' = attempts + 1
    /\ \E t \in Heard :
         /\ stt_text' = t
         /\ command' = normalize_command(t)
         /\ IF normalize_command(t) # NoCommand
            THEN Goto("listen_return", <<>>)
            ELSE IF attempts + 1 < max_attempts
                 THEN Goto("listen_loop", play("prompt", Prompt("i_did_not_catch_that"))
                                          \o wait("prompt"))
                 ELSE Goto("listen_loop", <<>>)
    /\ UNCHANGED <<playerVars, ret, textVars, readVars, max_attempts>>

\* the loop ends: return None
ListenGiveUp ==
    /\ At("listen_loop")
    /\ attempts >= max_attempts
    /\ command' = NoCommand
    /\ Goto("listen_return", <<>>)
    /\ UNCHANGED <<playerVars, ret, textVars, readVars, max_attempts, attempts, stt_text>>

listen_for_command ==
    \/ ListenStart
    \/ ListenAttempt
    \/ ListenGiveUp

\* ------------------------------------------------------------------------
\* reading/read.py: main, from the OCR result on
\* ------------------------------------------------------------------------
MAX_FAILURES == 1

\* the local variable sentence inside the chunk loop
sentence == sentences[current_index + 1]

\* if not text.strip(): announce and return
EmptyPage ==
    /\ At("ocr_done")
    /\ strip(text) = <<>>
    /\ Goto("terminated", StopAll \o play("main", Prompt("empty_page")) \o wait("main"))
    /\ UNCHANGED <<playerVars, ret, dataVars>>

\* sentences = split_into_sentences(text); no sentences: announce and
\* return; else read_so_far = [], current_index = 0
Chunking ==
    /\ At("ocr_done")
    /\ strip(text) # <<>>
    /\ sentences' = split_into_sentences(text, min_len)
    /\ IF sentences' = <<>>
       THEN Goto("terminated", StopAll \o play("main", Prompt("no_sentences")) \o wait("main"))
       ELSE Goto("chunk_loop", <<>>)
    /\ read_so_far' = <<>>
    /\ current_index' = 0
    /\ UNCHANGED <<playerVars, ret, text, min_len, failures, detour, voiceVars>>

\* head of the chunk loop: synthesize the sentence, stop all, play it
NextSentence ==
    /\ At("chunk_loop")
    /\ current_index < Len(sentences)
    /\ Goto("monitor", StopAll \o play("main", speak(sentence)) \o poll("main"))
    /\ UNCHANGED <<playerVars, ret, dataVars>>

\* AllDone that returns without the announcement
AllDoneSilent ==
    /\ At("chunk_loop")
    /\ current_index >= Len(sentences)
    /\ Goto("terminated", StopAll)
    /\ UNCHANGED <<playerVars, ret, dataVars>>

\* the chunk loop ends: the "Completed all sentences" announcement
AllDone ==
    /\ At("chunk_loop")
    /\ current_index >= Len(sentences)
    /\ Goto("terminated", StopAll \o play("main", Prompt("all_sentences_done")) \o wait("main"))
    /\ UNCHANGED <<playerVars, ret, dataVars>>

\* FinishSentence that skips the sentence after the one that ended
FinishSentenceSkips ==
    /\ At("monitor")
    /\ ~ret
    /\ read_so_far' = Append(read_so_far, sentence)
    /\ current_index' = current_index + 2
    /\ detour' = NoDetour
    /\ Goto("chunk_loop", <<>>)
    /\ UNCHANGED <<playerVars, ret, textVars, failures, voiceVars>>

\* FinishSentence without read_so_far.append(sentence)
FinishSentenceNoAppend ==
    /\ At("monitor")
    /\ ~ret
    /\ current_index' = current_index + 1
    /\ detour' = NoDetour
    /\ Goto("chunk_loop", <<>>)
    /\ UNCHANGED <<playerVars, ret, textVars, read_so_far, failures, voiceVars>>

\* monitor loop: not playing -> break; read_so_far.append(sentence);
\* current_index += 1
FinishSentence ==
    /\ At("monitor")
    /\ ~ret
    /\ read_so_far' = Append(read_so_far, sentence)
    /\ current_index' = current_index + 1
    /\ detour' = NoDetour
    /\ Goto("chunk_loop", <<>>)
    /\ UNCHANGED <<playerVars, ret, textVars, failures, voiceVars>>

\* monitor loop: playing, and no line or a line other than p and v on stdin
NoKey ==
    /\ At("monitor")
    /\ ret
    /\ Goto("monitor", poll("main"))
    /\ UNCHANGED <<playerVars, ret, dataVars>>

Interrupted == [idx |-> current_index, hist |-> read_so_far, summarised |-> FALSE]

\* KeyPause that reads the key before the poll of tts_main is looked at
KeyPauseBeforePoll ==
    /\ At("monitor")
    /\ Goto("pause_menu", StopAll \o play("prompt", Prompt("pause_beep")))
    /\ detour' = Interrupted
    /\ UNCHANGED <<playerVars, ret, textVars, current_index, read_so_far, failures, voiceVars>>

\* key p: stop all, pause beep, the menu
KeyPause ==
    /\ At("monitor")
    /\ ret
    /\ Goto("pause_menu", StopAll \o play("prompt", Prompt("pause_beep")))
    /\ detour' = Interrupted
    /\ UNCHANGED <<playerVars, ret, textVars, current_index, read_so_far, failures, voiceVars>>

\* ResumePlay that synthesizes the sentence without its first character
ResumePlaySuffix ==
    StopAll \o play("prompt", Prompt("resume_beep")) \o play("main", speak(Tail(sentence)))

\* the replay of a resume: stop all, resume beep, speak(sentence), play
ResumePlay ==
    StopAll \o play("prompt", Prompt("resume_beep")) \o play("main", speak(sentence))

\* choice r
PauseResume ==
    /\ At("pause_menu")
    /\ Goto("monitor", ResumePlay \o poll("main"))
    /\ UNCHANGED <<playerVars, ret, dataVars>>

\* SummaryEmpty that summarises the empty history on the summary channel
SummaryEmptySummarises(menu, back) ==
    /\ At(menu)
    /\ read_so_far = <<>>
    /\ Goto(back, StopAll \o play("summary", speak(summarize(JoinSpace(read_so_far))))
                  \o wait("summary"))
    /\ UNCHANGED <<playerVars, ret, dataVars>>

\* choice m / command summary with nothing read yet: announce, same menu
SummaryEmpty(menu, back) ==
    /\ At(menu)
    /\ read_so_far = <<>>
    /\ Goto(back, StopAll \o play("main", Prompt("no_content_yet")) \o wait("main"))
    /\ UNCHANGED <<playerVars, ret, dataVars>>

\* SummaryStart that also records the interrupted sentence as read
SummaryStartRecords(menu, loop) ==
    /\ At(menu)
    /\ read_so_far # <<>>
    /\ Goto(loop, StopAll \o play("main", Prompt("generating_summary")) \o wait("main")
                  \o StopAll
                  \o play("summary", speak(summarize(JoinSpace(read_so_far))))
                  \o poll("summary"))
    /\ detour' = [detour EXCEPT !.summarised = TRUE]
    /\ read_so_far' = Append(read_so_far, sentence)
    /\ UNCHANGED <<playerVars, ret, textVars, current_index, failures, voiceVars>>

\* SummaryStart that summarises the interrupted sentence too
SummaryStartWithCurrent(menu, loop) ==
    /\ At(menu)
    /\ read_so_far # <<>>
    /\ Goto(loop, StopAll \o play("main", Prompt("generating_summary")) \o wait("main")
                  \o StopAll
                  \o play("summary", speak(summarize(JoinSpace(Append(read_so_far, sentence)))))
                  \o poll("summary"))
    /\ detour' = [detour EXCEPT !.summarised = TRUE]
    /\ UNCHANGED <<playerVars, ret, textVars, current_index, read_so_far, failures, voiceVars>>

\* choice m / command summary: announce, summarize(" ".join(read_so_far)),
\* speak the summary, stop all, play it on the summary channel
SummaryStart(menu, loop) ==
    /\ At(menu)
    /\ read_so_far # <<>>
    /\ Goto(loop, StopAll \o play("main", Prompt("generating_summary")) \o wait("main")
                  \o StopAll
                  \o play("summary", speak(summarize(JoinSpace(read_so_far))))
                  \o poll("summary"))
    /\ detour' = [detour EXCEPT !.summarised = TRUE]
    /\ UNCHANGED <<playerVars, ret, textVars, current_index, read_so_far, failures, voiceVars>>

\* the announcement after the summary loop and the way back to the menu
SummaryBack(name) == StopAll \o play("main", Prompt(name)) \o wait("main")

\* SummaryDone that goes back to reading with a replay of the sentence
SummaryDoneToReading(loop, back, name) ==
    /\ At(loop)
    /\ ~ret
    /\ Goto("monitor", SummaryBack(name) \o play("main", speak(sentence)) \o poll("main"))
    /\ UNCHANGED <<playerVars, ret, dataVars>>

\* summary loop: the summary channel is not playing any more
SummaryDone(loop, back, name) ==
    /\ At(loop)
    /\ ~ret
    /\ Goto(back, SummaryBack(name))
    /\ UNCHANGED <<playerVars, ret, dataVars>>

\* summary loop: playing, and no line or a line other than s on stdin
SummaryPoll(loop) ==
    /\ At(loop)
    /\ ret
    /\ Goto(loop, poll("summary"))
    /\ UNCHANGED <<playerVars, ret, dataVars>>

\* summary loop: key s
SummaryStop(loop, back, name) ==
    /\ At(loop)
    /\ ret
    /\ Goto(back, StopAll \o play("main", Prompt("stopping_summary")) \o wait("main")
                  \o SummaryBack(name))
    /\ UNCHANGED <<playerVars, ret, dataVars>>

\* Quit that announces the exit and goes on with the chunk loop
QuitContinues(menu) ==
    /\ At(menu)
    /\ Goto("chunk_loop", StopAll \o play("main", Prompt("exiting_module")) \o wait("main"))
    /\ UNCHANGED <<playerVars, ret, dataVars>>

\* choice q / command quit: announce and return
Quit(menu) ==
    /\ At(menu)
    /\ Goto("terminated", StopAll \o play("main", Prompt("exiting_module")) \o wait("main"))
    /\ UNCHANGED <<playerVars, ret, dataVars>>

\* any other choice: the controller is at print("Invalid option.")
PauseInvalid ==
    /\ At("pause_menu")
    /\ Goto("pause_invalid", <<>>)
    /\ UNCHANGED <<playerVars, ret, dataVars>>

\* PauseAgain that takes the invalid choice for r
PauseAgainResumes ==
    /\ At("pause_invalid")
    /\ Goto("monitor", ResumePlay \o poll("main"))
    /\ UNCHANGED <<playerVars, ret, dataVars>>

\* "Invalid option." printed: continue, the menu is offered again
PauseAgain ==
    /\ At("pause_invalid")
    /\ Goto("pause_menu", <<>>)
    /\ UNCHANGED <<playerVars, ret, dataVars>>

PauseMenu ==
    \/ PauseResume
    \/ SummaryEmpty("pause_menu", "pause_menu")
    \/ SummaryStart("pause_menu", "pause_summary")
    \/ SummaryDone("pause_summary", "pause_menu", "back_pause_menu")
    \/ SummaryPoll("pause_summary")
    \/ SummaryStop("pause_summary", "pause_menu", "back_pause_menu")
    \/ Quit("pause_menu")
    \/ PauseInvalid
    \/ PauseAgain

\* key v: stop all, the voice-mode intro, failures = 0
KeyVoice ==
    /\ At("monitor")
    /\ ret
    /\ Goto("voice_loop", StopAll \o play("main", Prompt("voice_intro")) \o wait("main"))
    /\ failures' = 0
    /\ detour' = Interrupted
    /\ UNCHANGED <<playerVars, ret, textVars, current_index, read_so_far, voiceVars>>

\* VoiceLoop with the loop condition written failures <= MAX_FAILURES
VoiceLoopInclusive ==
    /\ At("voice_loop")
    /\ IF failures <= MAX_FAILURES
       THEN /\ Goto("listen", <<>>)
            /\ max_attempts' = DEFAULT_MAX_ATTEMPTS
       ELSE /\ Goto("voice_exit", <<>>)
            /\ UNCHANGED max_attempts
    /\ UNCHANGED <<playerVars, ret, textVars, readVars, attempts, stt_text, command>>

\* while failures < MAX_FAILURES: command = listen_for_command()
VoiceLoop ==
    /\ At("voice_loop")
    /\ IF failures < MAX_FAILURES
       THEN /\ Goto("listen", <<>>)
            /\ max_attempts' = DEFAULT_MAX_ATTEMPTS
       ELSE /\ Goto("voice_exit", <<>>)
            /\ UNCHANGED max_attempts
    /\ UNCHANGED <<playerVars, ret, textVars, readVars, attempts, stt_text, command>>

\* command is None, or (else branch) a command that is none of the three:
\* failures += 1, stop all; the unknown-command announcement for the latter
VoiceFailure ==
    /\ At("listen_return")
    /\ command \notin {"resume", "quit", "summary"}
    /\ failures' = failures + 1
    /\ IF command = NoCommand
       THEN Goto("voice_loop", StopAll \o wait("main"))
       ELSE Goto("voice_loop", StopAll \o play("main", Prompt("unknown_command")) \o wait("main"))
    /\ UNCHANGED <<playerVars, ret, textVars, current_index, read_so_far, detour, voiceVars>>

\* command resume: the replay, then break
VoiceResume ==
    /\ At("listen_return")
    /\ command = "resume"
    /\ Goto("voice_exit", ResumePlay)
    /\ UNCHANGED <<playerVars, ret, dataVars>>

\* VoiceExit that announces and replays whatever ended the voice loop
VoiceExitAlwaysReplays ==
    /\ At("voice_exit")
    /\ Goto("monitor", StopAll \o play("main", Prompt("return_to_reading"))
                       \o wait("main")
                       \o play("main", speak(sentence)) \o poll("main"))
    /\ UNCHANGED <<playerVars, ret, dataVars>>

\* after the voice loop: with failures >= MAX_FAILURES the "Returning to
\* reading" announcement and the replay; then the monitor loop again
VoiceExit ==
    /\ At("voice_exit")
    /\ IF failures >= MAX_FAILURES
       THEN Goto("monitor", StopAll \o play("main", Prompt("return_to_reading"))
                            \o wait("main")
                            \o play("main", speak(sentence)) \o poll("main"))
       ELSE Goto("monitor", poll("main"))
    /\ UNCHANGED <<playerVars, ret, dataVars>>

VoiceMode ==
    \/ VoiceLoop
    \/ VoiceFailure
    \/ VoiceResume
    \/ VoiceExit
    \/ Quit("listen_return") /\ command = "quit"
    \/ SummaryEmpty("listen_return", "voice_loop") /\ command = "summary"
    \/ SummaryStart("listen_return", "voice_summary") /\ command = "summary"
    \/ SummaryDone("voice_summary", "voice_loop", "back_voice")
    \/ SummaryPoll("voice_summary")
    \/ SummaryStop("voice_summary", "voice_loop", "back_voice")

main ==
    \/ EmptyPage
    \/ Chunking
    \/ NextSentence
    \/ AllDone
    \/ FinishSentence
    \/ NoKey
    \/ KeyPause
    \/ KeyVoice
    \/ PauseMenu
    \/ VoiceMode
    \/ listen_for_command

\* ========================================================================
\* A single TTSPlayer driven by an arbitrary client: any sequence of
\* play(), stop(), pause(), resume() and is_playing() calls on tts_main.
\* ========================================================================
ClientCall ==
    /\ pc = "client" /\ todo = <<>>
    /\ \/ todo' = play("main", Prompt("a"))
       \/ todo' = stop("main")
       \/ todo' = pause("main")
       \/ todo' = resume("main")
       \/ todo' = poll("main")
    /\ UNCHANGED <<playerVars, pc, ret, dataVars>>

\* the variables a specification does not use keep these values
NoText == /\ text = <<>>
          /\ min_len = DEFAULT_MIN_LEN
          /\ sentences = <<>>

NoReading == /\ current_index = 0
             /\ read_so_far = <<>>
             /\ failures = 0
             /\ detour = NoDetour

NoVoice == /\ max_attempts = DEFAULT_MAX_ATTEMPTS
           /\ attempts = 0
           /\ stt_text = NoneText
           /\ command = NoCommand

InitPlayer ==
    /\ TTSPlayerInit
    /\ pc = "client"
    /\ todo = <<>>
    /\ ret = FALSE
    /\ NoText /\ NoReading /\ NoVoice

NextPlayer ==
    \/ ClientCall
    \/ TTSPlayer
    \/ TTSPlayerPause
    \/ playback_loop("main")
    \/ playback_loop_paused("main")
    \/ playback_loop_long("main")

SpecPlayer == InitPlayer /\ [][NextPlayer]_vars

\* ========================================================================
\* A reading session: main from the OCR result on, with the three players.
\* ========================================================================
\* sentences of the longest page read
MaxSentences == 2

\* a piece of at least min_len characters that ends a sentence
Piece(k) == <<"S", "m", "i", "t", "h", " ", "l", "e", "f", "t">> \o [i \in 1..k |-> "!"]

\* "Hi. Dr." followed by n times " Smith left!.. Ok."
RECURSIVE Page(_)
Page(n) ==
    IF n = 0 THEN <<"H", "i", ".", " ", "D", "r", ".">>
    ELSE Page(n - 1) \o <<" ">> \o Piece(n) \o <<" ", "O", "k", ".">>

\* the OCR results: empty, blank, and pages of 1..MaxSentences sentences
SessionTexts == {<<>>, <<" ", "\n">>} \cup {Page(n) : n \in 0..(MaxSentences - 1)}

InitRead ==
    /\ TTSPlayerInit
    /\ pc = "ocr_done"
    /\ todo = <<>>
    /\ ret = FALSE
    /\ text \in SessionTexts
    /\ min_len = DEFAULT_MIN_LEN
    /\ sentences = <<>>
    /\ NoReading /\ NoVoice

NextRead ==
    \/ main
    \/ TTSPlayer
    \/ \E ch \in Channels : playback_loop(ch)

SpecRead == InitRead /\ [][NextRead]_vars

\* ------------------------------------------------------------------------
\* The chunk loop of a session in which no line ever arrives on stdin: the
\* monitor loop sees no key.  It starts where main() enters the loop, with
\* the sentences of a page.  The controller keeps running and every
\* playback thread of tts_main keeps running (weak fairness), so every
\* playback is finite.
\* ------------------------------------------------------------------------
InitQuiet ==
    /\ TTSPlayerInit
    /\ pc = "chunk_loop"
    /\ todo = <<>>
    /\ ret = FALSE
    /\ text \in {Page(n) : n \in 0..(MaxSentences - 1)}
    /\ min_len = DEFAULT_MIN_LEN
    /\ sentences = split_into_sentences(text, min_len)
    /\ NoReading /\ NoVoice

Controller ==
    \/ NextSentence
    \/ AllDone
    \/ FinishSentence
    \/ NoKey
    \/ TTSPlayer

NextQuiet ==
    \/ Controller
    \/ playback_loop("main")

SpecQuiet ==
    /\ InitQuiet
    /\ [][NextQuiet]_vars
    /\ WF_vars(Controller)
    /\ WF_vars(playback_loop("main"))

\* ========================================================================
\* listen_for_command(max_attempts) called on its own, with tts_prompt.
\* ========================================================================
\* largest max_attempts a caller passes
MaxAttempts == 3

InitListen ==
    /\ TTSPlayerInit
    /\ pc = "listen"
    /\ todo = <<>>
    /\ ret = FALSE
    /\ NoText /\ NoReading
    /\ max_attempts \in 1..MaxAttempts
    /\ attempts = 0
    /\ stt_text = NoneText
    /\ command = NoCommand

NextListen ==
    \/ listen_for_command
    \/ PlayCall
    \/ PollCall
    \/ playback_loop("prompt")

SpecListen == InitListen /\ [][NextListen]_vars

\* ========================================================================
\* normalize_command(text) called on its own.
\* ========================================================================
\* pieces an utterance is put together from
MaxFragments == 2

Fragments == {
    <<"R", "e", "s", "u", "m", "e">>,
    <<"c", "o", "n", "t", "i", "n", "u", "e">>,
    <<"s", "t", "a", "r", "t">>,
    <<"q", "u", "i", "t">>,
    <<"e", "x", "i", "t">>,
    <<"e", "n", "d">>,
    <<"R", "E">>,
    <<"A", "D">>,
    <<"d", "e", "t", "e", "c", "t">>,
    <<"s", "t", "o", "p">>,
    <<"s", "u", "m">>,
    <<"m", "a", "r", "y">>,
    <<"m", "a", "r", "i", "z", "e">>,
    <<"S", "U", "M", "M", "A", "R", "I", "S", "E">>,
    <<" ">>,
    <<"\t">>,
    <<"x">>}

RECURSIVE Utterances(_)
Utterances(n) ==
    IF n = 0 THEN {<<>>}
    ELSE Utterances(n - 1) \cup {u \o f : u \in Utterances(n - 1), f \in Fragments}

\* what normalize_command is called with: None or a str
NormTexts == {NoneText} \cup Utterances(MaxFragments)

InitNorm ==
    /\ TTSPlayerInit
    /\ pc = "normalize"
    /\ todo = <<>>
    /\ ret = FALSE
    /\ NoText /\ NoReading
    /\ max_attempts = DEFAULT_MAX_ATTEMPTS
    /\ attempts = 0
    /\ stt_text \in NormTexts
    /\ command = NoCommand

\* command = normalize_command(stt_text)
Normalize ==
    /\ At("normalize")
    /\ command' = normalize_command(stt_text)
    /\ Goto("normalized", <<>>)
    /\ UNCHANGED <<playerVars, ret, textVars, readVars, max_attempts, attempts, stt_text>>

SpecNorm == InitNorm /\ [][Normalize]_vars

\* ========================================================================
\* split_into_sentences(text, min_len) called on its own.
\* ========================================================================
\* longest text over Alphabet
MaxTextLen == 6

\* largest min_len besides the default
MaxMinLen == 3

Alphabet == {"a", ".", " "}

RECURSIVE Strings(_)
Strings(n) ==
    IF n = 0 THEN {<<>>}
    ELSE Strings(n - 1) \cup {u \o <<c>> : u \in Strings(n - 1), c \in Alphabet}

\* "Hi. Dr. Smith left. Ok."
Example == <<"H", "i", ".", " ", "D", "r", ".", " ",
             "S", "m", "i", "t", "h", " ", "l", "e", "f", "t", ".", " ",
             "O", "k", ".">>

\* a page with a line break, a tab and the other two terminators
Mixed == <<"N", "o", "?", "\n", "Y", "e", "s", "!", "\t", " ", "G", "o", ".", "x">>

ChunkTexts == Strings(MaxTextLen) \cup {Example, Mixed}

MinLens == 0..MaxMinLen \cup {DEFAULT_MIN_LEN}

InitChunk ==
    /\ TTSPlayerInit
    /\ pc = "split"
    /\ todo = <<>>
    /\ ret = FALSE
    /\ text \in ChunkTexts
    /\ min_len \in MinLens
    /\ sentences = <<>>
    /\ NoReading /\ NoVoice

\* sentences = split_into_sentences(text, min_len)
Split ==
    /\ At("split")
    /\ sentences' = split_into_sentences(text, min_len)
    /\ Goto("split_done", <<>>)
    /\ UNCHANGED <<playerVars, ret, text, min_len, readVars, voiceVars>>

\* a second call whose result list starts from the list of the first call
\* instead of a fresh one
SplitAgainShared ==
    /\ At("split_done")
    /\ sentences' = sentences \o split_into_sentences(text, min_len)
    /\ Goto("split_twice", <<>>)
    /\ UNCHANGED <<playerVars, ret, text, min_len, readVars, voiceVars>>

\* sentences = split_into_sentences(text, min_len), a second time with the
\* same arguments
SplitAgain ==
    /\ At("split_done")
    /\ sentences' = split_into_sentences(text, min_len)
    /\ Goto("split_twice", <<>>)
    /\ UNCHANGED <<playerVars, ret, text, min_len, readVars, voiceVars>>

NextChunk ==
    \/ Split
    \/ SplitAgain

SpecChunk == InitChunk /\ [][NextChunk]_vars

\* ========================================================================
\* Properties
\* ========================================================================

\* ---- reading session (SpecRead) ----------------------------------------

\* C1: in every state of a session read_so_far is sentences[0:current_index]
\* and 0 <= current_index <= len(sentences).
HistoryPrefix ==
    /\ current_index \in 0..Len(sentences)
    /\ read_so_far = SubSeq(sentences, 1, current_index)

\* the session has ended after narrating a page of at least two sentences
WholePageRead ==
    /\ pc = "terminated"
    /\ current_index >= 2
    /\ current_index = Len(sentences)
    /\ read_so_far = sentences

\* C2: in every state of a session at most one of tts_main, tts_summary and
\* tts_prompt has is_playing() true.
AtMostOneActiveChannel == Cardinality({ch \in Channels : is_playing(ch)}) <= 1

\* the play() calls on tts_main that the controller still has to perform
IsMainPlay(o) == o.ch = "main" /\ o.op \in {"play", "play_start"}

MainPlays == SelectSeq(todo, IsMainPlay)

\* C3: on the way back to the monitor loop after a pause-menu resume, a
\* voice resume or the voice-mode fallback, the audio handed to
\* tts_main.play for narration is speak(sentences[current_index]) of the
\* whole interrupted sentence; before it tts_main gets at most the
\* "Returning to reading" announcement of the fallback.
ResumeRestartsSentence ==
    (pc \in {"monitor", "voice_exit"} /\ detour.idx >= 0 /\ MainPlays # <<>>) =>
        /\ detour.idx = current_index
        /\ MainPlays[Len(MainPlays)].src = speak(sentences[current_index + 1])
        /\ \A k \in 1..(Len(MainPlays) - 1) : MainPlays[k].src = Prompt("return_to_reading")

\* the replay of the second sentence is being started after an interrupt
\* that no summary followed
ReplayAfterResume ==
    /\ pc = "monitor"
    /\ detour.idx = 1
    /\ ~detour.summarised
    /\ todo # <<>>
    /\ IsMainPlay(Head(todo))
    /\ Head(todo).op = "play_start"
    /\ Head(todo).src = speak(sentences[2])

\* C4: from a summary request until the interrupted sentence is finished,
\* current_index and read_so_far have the values they had at the interrupt,
\* and the playback requested on tts_main at the resume is that of
\* sentences[current_index].
SummaryDetourKeepsProgress ==
    detour.summarised =>
        /\ current_index = detour.idx
        /\ read_so_far = detour.hist
        /\ (pc = "monitor" /\ MainPlays # <<>>) =>
               MainPlays[Len(MainPlays)].src = speak(sentences[detour.idx + 1])

\* the replay is being started after a summary detour
ReplayAfterSummary ==
    /\ pc = "monitor"
    /\ detour.summarised
    /\ detour.idx = 1
    /\ todo # <<>>
    /\ IsMainPlay(Head(todo))
    /\ Head(todo).op = "play_start"

\* ---- one TTSPlayer (SpecPlayer) ----------------------------------------

\* C5: at most one playback thread of a player is inside its streaming
\* loop at any time.
OneStreamPerChannel == Cardinality(StreamingThreads("main")) <= 1

\* C6: when stop() returns, no playback thread of the player is alive.
StopJoins == [][Stop => (AliveThreads("main") = {})']_vars

\* C7: is_playing() is true exactly when a playback thread of the player
\* is alive.
IsPlayingExact == is_playing("main") <=> AliveThreads("main") # {}

\* ---- listen_for_command (SpecListen) -----------------------------------

\* C8: listen_for_command never calls listen() more than max_attempts
\* times, and when it returns after a last recognition result that
\* normalized to no command (so that none before it did either), it
\* returns None and has called listen() exactly max_attempts times.
RetryExhaustion ==
    /\ attempts <= max_attempts
    /\ (pc = "listen_return" /\ normalize_command(stt_text) = NoCommand) =>
           /\ command = NoCommand
           /\ attempts = max_attempts

\* None has been returned after MaxAttempts unrecognized results
GaveUpAfterAllAttempts ==
    /\ pc = "listen_return"
    /\ max_attempts = MaxAttempts
    /\ attempts = MaxAttempts
    /\ normalize_command(stt_text) = NoCommand
    /\ command = NoCommand

\* ---- normalize_command (SpecNorm) --------------------------------------
ResumeWords == {<<"r", "e", "s", "u", "m", "e">>,
                <<"c", "o", "n", "t", "i", "n", "u", "e">>,
                <<"s", "t", "a", "r", "t">>}

QuitWords == {<<"q", "u", "i", "t">>, <<"e", "x", "i", "t">>, <<"e", "n", "d">>,
              <<"r", "e", "a", "d">>, <<"d", "e", "t", "e", "c", "t">>,
              <<"s", "t", "o", "p">>}

SummaryWords == {<<"s", "u", "m", "m", "a", "r", "y">>,
                 <<"s", "u", "m", "m", "a", "r", "i", "z", "e">>,
                 <<"s", "u", "m", "m", "a", "r", "i", "s", "e">>}

Occurs(words, t) == \E w \in words : Contains(w, strip(lower(t)))

\* C9: normalize_command gives None for None, for the empty text and for a
\* text in which no accepted word occurs; else resume if a resume word
\* occurs in the lower-cased, trimmed text, else quit if a quit word
\* occurs, else summary.
NormalizationTable ==
    pc = "normalized" =>
        command = IF stt_text = NoneText \/ stt_text = <<>> THEN NoCommand
                  ELSE IF Occurs(ResumeWords, stt_text) THEN "resume"
                  ELSE IF Occurs(QuitWords, stt_text) THEN "quit"
                  ELSE IF Occurs(SummaryWords, stt_text) THEN "summary"
                  ELSE NoCommand

\* an utterance with a quit word first and a resume word in capitals after
\* it was normalized to resume
EarliestCategoryWins ==
    /\ pc = "normalized"
    /\ stt_text = <<"q", "u", "i", "t", "R", "e", "s", "u", "m", "e">>
    /\ command = "resume"

\* ---- split_into_sentences (SpecChunk) ----------------------------------
\* the trimmed non-empty pieces of the text
Pieces == Cleaned(re_split(text))

\* the pieces that open a sentence: the first, and each later one of at
\* least min_len characters
Openers == {i \in 1..Len(Pieces) : i = 1 \/ Len(Pieces[i]) >= min_len}

\* the last piece of the sentence that piece i opens
GroupEnd(i) ==
    CHOOSE j \in i..Len(Pieces) :
        /\ \A k \in (i + 1)..j : k \notin Openers
        /\ j = Len(Pieces) \/ j + 1 \in Openers

\* the k-th opener, counted from 1
RECURSIVE NthOpener(_)
NthOpener(k) == IF k = 1 THEN 1 ELSE GroupEnd(NthOpener(k - 1)) + 1

\* C10: the result of split_into_sentences has one sentence per opener,
\* and sentence k is the opener's piece and the short pieces after it,
\* joined by single spaces; the example text gives "Hi. Dr." and
\* "Smith left. Ok.".
GreedyForwardMerge ==
    (pc = "split_done" /\ Pieces # <<>>) =>
        /\ Len(sentences) = Cardinality(Openers)
        /\ \A k \in 1..Len(sentences) :
               sentences[k] = JoinSpace(SubSeq(Pieces, NthOpener(k), GroupEnd(NthOpener(k))))
        /\ (text = Example /\ min_len = DEFAULT_MIN_LEN) =>
               sentences = << <<"H", "i", ".", " ", "D", "r", ".">>,
                              <<"S", "m", "i", "t", "h", " ", "l", "e", "f", "t", ".",
                                " ", "O", "k", ".">> >>

\* the example has been split with min_len 10
ExampleSplit ==
    /\ pc = "split_done"
    /\ text = Example
    /\ min_len = DEFAULT_MIN_LEN
    /\ Len(sentences) = 2

\* C11: no sentence of the result is empty, and every sentence but the
\* first has at least min_len characters or consists of a piece and the
\* short pieces merged into it.
MergeInvariant ==
    pc = "split_done" =>
        \A k \in 1..Len(sentences) :
            /\ sentences[k] # <<>>
            /\ k > 1 =>
                   \/ Len(sentences[k]) >= min_len
                   \/ \E i \in 1..Len(Pieces) : \E j \in (i + 1)..Len(Pieces) :
                          /\ sentences[k] = JoinSpace(SubSeq(Pieces, i, j))
                          /\ \A q \in (i + 1)..j : Len(Pieces[q]) < min_len

\* a second sentence of exactly min_len characters follows a shorter first
ShortFirstThenExact ==
    /\ pc = "split_done"
    /\ min_len = 3
    /\ Len(sentences) = 2
    /\ Len(sentences[1]) < min_len
    /\ Len(sentences[2]) = min_len

\* C18: the result is the empty list exactly for the texts without a
\* character other than whitespace (the empty text among them).
FailsClosed ==
    pc = "split_done" =>
        (sentences = <<>> <=> \A i \in 1..Len(text) : text[i] \in Whitespace)

\* a text of two blanks has been split into nothing
BlankSplit ==
    /\ pc = "split_done"
    /\ text = <<" ", " ">>
    /\ sentences = <<>>

PreservesContent ==
    pc = "split_done" => JoinSpace(sentences) = JoinSpace(Pieces)

\* a text of three pieces has been split into one sentence
MergedSplit ==
    /\ pc = "split_done"
    /\ text = Mixed
    /\ Len(Pieces) = 3
    /\ Len(sentences) = 1

\* ---- reading session (SpecRead), continued -----------------------------

\* the controller is inside listen_for_command or a voice-mode summary
Listening == pc \in {"listen", "listen_loop", "listen_return", "voice_summary"}

\* with failures at MAX_FAILURES the controller listens no more, and the
\* progress is that of the interrupt
CeilingReached ==
    /\ failures <= MAX_FAILURES
    /\ failures >= MAX_FAILURES => ~Listening
    /\ (failures >= MAX_FAILURES /\ pc \in {"voice_loop", "voice_exit"}) =>
           /\ current_index = detour.idx
           /\ read_so_far = detour.hist

\* a step of the controller, not of a playback thread
ControllerStep == <<pc, todo>>' # <<pc, todo>>

\* the step out of the voice loop at the ceiling, and the step after it:
\* stop all, the "Returning to reading" announcement awaited on tts_main,
\* the replay of sentences[current_index], the monitor loop
FallbackStep ==
    /\ (At("voice_loop") /\ failures >= MAX_FAILURES /\ ControllerStep) =>
           /\ pc' = "voice_exit"
           /\ todo' = <<>>
    /\ (At("voice_exit") /\ failures >= MAX_FAILURES /\ ControllerStep) =>
           /\ pc' = "monitor"
           /\ todo' = StopAll \o play("main", Prompt("return_to_reading")) \o wait("main")
                      \o play("main", speak(sentences[current_index + 1])) \o poll("main")
           /\ UNCHANGED <<current_index, read_so_far>>

\* C12: once the failure counter of voice mode has reached MAX_FAILURES the
\* controller does not listen again: it leaves the voice loop, plays the
\* "Returning to reading" announcement, replays sentences[current_index]
\* on tts_main and continues in the monitor loop, current_index and
\* read_so_far being those of the interrupt.
VoiceFallback == []CeilingReached /\ [][FallbackStep]_vars

\* the fallback has been requested while the second sentence was interrupted
FallbackPending ==
    /\ pc = "monitor"
    /\ failures = MAX_FAILURES
    /\ detour.idx = 1
    /\ Len(MainPlays) = 2
    /\ MainPlays[1].src = Prompt("return_to_reading")
    /\ MainPlays[2].src = speak(sentences[2])

\* the controller still has to hand the prompt of this name to a play()
Pending(name) ==
    \E i \in 1..Len(todo) : todo[i].op \in {"play", "play_start"} /\ todo[i].src = Prompt(name)

\* the "Completed all sentences" announcement is requested only at the end
\* of the chunk loop, with every sentence read
CompletedOnlyAtEnd ==
    Pending("all_sentences_done") =>
        /\ pc = "terminated"
        /\ current_index = Len(sentences)
        /\ read_so_far = sentences

\* the steps of the chunk loop: a poll that found tts_main not playing
\* appends the sentence and adds 1 to current_index; nothing else changes
\* the progress; the head of the loop announces completion and returns
\* exactly when current_index = len(sentences), else it plays the sentence;
\* a controller that has returned does nothing but finish its last calls
CompletionStep ==
    /\ (At("monitor") /\ ~ret /\ ControllerStep) =>
           /\ read_so_far' = Append(read_so_far, sentences[current_index + 1])
           /\ current_index' = current_index + 1
           /\ pc' = "chunk_loop"
    /\ (current_index' # current_index \/ read_so_far' # read_so_far) =>
           At("monitor") /\ ~ret
    /\ (At("chunk_loop") /\ ControllerStep) =>
           IF current_index = Len(sentences)
           THEN pc' = "terminated" /\ Pending("all_sentences_done")'
           ELSE /\ pc' = "monitor"
                /\ ~Pending("all_sentences_done")'
                /\ MainPlays' = play("main", speak(sentences[current_index + 1]))
    /\ (pc = "terminated" /\ ControllerStep) => pc' \in {"terminated", "crashed"}

\* C13: when a poll of the monitor loop finds tts_main not playing, the
\* sentence is appended to read_so_far and current_index grows by one, and
\* by nothing else; the "Completed all sentences" announcement is requested
\* if and only if current_index has reached len(sentences), and the
\* controller returns after it.
NaturalCompletion == []CompletedOnlyAtEnd /\ [][CompletionStep]_vars

\* the completion of a page of two sentences is being announced
CompletionAnnounced ==
    /\ pc = "terminated"
    /\ Pending("all_sentences_done")
    /\ current_index = 2
    /\ Len(read_so_far) = 2

\* the play() calls the controller still has to perform
IsPlay(o) == o.op \in {"play", "play_start"}

PlayOps == SelectSeq(todo, IsPlay)

\* stop all, the exit announcement awaited on tts_main
ExitCalls == StopAll \o play("main", Prompt("exiting_module")) \o wait("main")

\* a session that ended before its last sentence was read (a quit) has
\* nothing left to play but the exit announcement
QuitState ==
    (pc = "terminated" /\ current_index < Len(sentences)) =>
        \A i \in 1..Len(PlayOps) :
            PlayOps[i].ch = "main" /\ PlayOps[i].src = Prompt("exiting_module")

\* quit from the pause menu or by voice requests the exit announcement and
\* ends the session; an ended session requests no further play(), starts
\* no thread once the announcement is started, and keeps its progress
QuitStep ==
    /\ (At("listen_return") /\ command = "quit" /\ ControllerStep) =>
           /\ pc' = "terminated"
           /\ todo' = ExitCalls
           /\ UNCHANGED <<current_index, read_so_far>>
    /\ (At("pause_menu") /\ pc' = "terminated") =>
           /\ todo' = ExitCalls
           /\ UNCHANGED <<current_index, read_so_far>>
    /\ pc = "terminated" =>
           /\ pc' \in {"terminated", "crashed"}
           /\ UNCHANGED <<current_index, read_so_far, sentences>>
           /\ Len(PlayOps') <= Len(PlayOps)
           /\ PlayOps = <<>> => LiveThreads' <= LiveThreads

\* C14: quit in the pause menu or as a voice command requests the exit
\* announcement and ends the session; from then on nothing but that
\* announcement is played, no thread is started after it, current_index
\* and read_so_far do not change, current_index < len(sentences) and the
\* "Completed all sentences" announcement is not requested.
QuitTerminal == []QuitState /\ [][QuitStep]_vars

\* a session has ended by quit while its second sentence was interrupted
QuitDuringSecond ==
    /\ At("terminated")
    /\ current_index = 1
    /\ Len(sentences) = 2

\* stop all, the "No content has been read yet" announcement awaited
NoContentCalls == StopAll \o play("main", Prompt("no_content_yet")) \o wait("main")

\* with an empty history the summary channel has never been started and
\* no play() on it is requested
NoSummaryYet ==
    read_so_far = <<>> =>
        /\ thread["summary"] = 0
        /\ threads["summary"] = <<>>
        /\ pc \notin {"pause_summary", "voice_summary"}
        /\ \A i \in 1..Len(todo) :
               /\ IsPlay(todo[i]) => todo[i].ch # "summary"
               /\ IsPlay(todo[i]) => todo[i].src # speak(summarize(JoinSpace(read_so_far)))

\* a summary command with an empty history, and any menu choice that keeps
\* the pause menu with an empty history, requests the announcement only
EmptySummaryStep ==
    /\ (At("listen_return") /\ command = "summary" /\ read_so_far = <<>> /\ ControllerStep) =>
           /\ pc' = "voice_loop"
           /\ todo' = NoContentCalls
           /\ UNCHANGED <<current_index, read_so_far, failures>>
    /\ (At("pause_menu") /\ read_so_far = <<>> /\ ControllerStep) =>
           /\ pc' \in {"pause_menu", "pause_invalid", "monitor", "terminated"}
           /\ pc' = "pause_menu" => todo' = NoContentCalls
           /\ UNCHANGED <<current_index, read_so_far>>

\* C15: a summary request with an empty read_so_far plays the "No content
\* has been read yet" announcement, calls no summarizer, starts no
\* playback on the summary channel, leaves current_index and read_so_far
\* unchanged and returns to the same menu.
EmptySummaryNoOp == []NoSummaryYet /\ [][EmptySummaryStep]_vars

\* the voice command summary was answered with the announcement
EmptySummaryAnswered ==
    /\ pc = "voice_loop"
    /\ command = "summary"
    /\ read_so_far = <<>>
    /\ Pending("no_content_yet")

\* tts_main.play(speak(sentence)) as a requested call
IsSentencePlay(o) ==
    IsMainPlay(o) /\ o.src \in {speak(sentences[n]) : n \in 1..Len(sentences)}

\* in the calls q, the call at position i comes after stop() on all three
\* channels with no play() on tts_summary or tts_prompt in between
StoppedBefore(q, i) ==
    \E j \in 1..(i - 3) :
        /\ SubSeq(q, j, j + 2) = StopAll
        /\ \A k \in (j + 3)..(i - 1) :
               IsPlay(q[k]) => q[k].ch \notin {"summary", "prompt"}

\* the calls a step of the controller requests play a sentence on tts_main
\* only after such a stop of all channels
StopAllOrdering ==
    (ControllerStep /\ todo = <<>>) =>
        \A i \in 1..Len(todo') : IsSentencePlay(todo'[i]) => StoppedBefore(todo', i)

\* C16: every tts_main.play of a sentence is preceded by stop() on all three
\* channels with no play() on the summary or prompt channel in between, so
\* neither of these channels is playing when the sentence starts.
StopAllBeforeSentence ==
    /\ [](\A ch \in {"summary", "prompt"} :
             (todo # <<>> /\ IsSentencePlay(Head(todo))) => ~is_playing(ch))
    /\ [][StopAllOrdering]_vars

\* a stop() leaves no handle, so is_playing() is false after it and a
\* stop() that follows finds no handle; a stop()
\* of a player that is not playing changes no field of the player; and
\* play() clears both flags before it starts the thread
StopStep ==
    /\ Stop =>
           /\ thread'[Cur.ch] = 0
           /\ ~is_playing(Cur.ch) => UNCHANGED playerVars
    /\ PlayStart => ~is_stopped'[Cur.ch] /\ ~is_paused'[Cur.ch]

\* C17: stop() on a player with no active playback changes nothing
\* (is_playing() stays false, no flag is set that would cancel a later
\* play()), and a second stop() in a row leaves the player as the first did.
StopIdempotent == [][StopStep]_vars

\* stop() is called on a player that a stop() has already stopped
SecondStop ==
    /\ todo = stop("main")
    /\ thread["main"] = 0
    /\ is_stopped["main"]

\* every recognition result before the one that ends the call normalized to
\* no command, and a returned command is that of the last result
FirstSuccessReturned ==
    /\ (pc = "listen_loop" /\ attempts > 0) => normalize_command(stt_text) = NoCommand
    /\ (pc = "listen_return" /\ command # NoCommand) =>
           /\ command = normalize_command(stt_text)
           /\ attempts \in 1..max_attempts
           /\ todo = <<>>

\* listen() is called once per increment of attempts, in the loop only; a
\* result that normalizes to a command ends the call at once with nothing
\* left to play; after the return nothing is recognized or requested
ShortCircuitStep ==
    /\ (attempts' # attempts \/ stt_text' # stt_text) => At("listen_loop")
    /\ (At("listen_loop") /\ ControllerStep /\ attempts < max_attempts) =>
           /\ attempts' = attempts + 1
           /\ normalize_command(stt_text') # NoCommand =>
                  /\ pc' = "listen_return"
                  /\ command' = normalize_command(stt_text')
                  /\ todo' = <<>>
    /\ pc = "listen_return" => UNCHANGED <<pc, todo, attempts, stt_text, command>>

\* C21: listen_for_command returns the command of the first attempt whose
\* text normalizes to a command; after that attempt it calls listen() no
\* more and plays no retry prompt, so the number of listen() calls is the
\* number of that attempt.
ShortCircuit == []FirstSuccessReturned /\ [][ShortCircuitStep]_vars

\* quit was returned by the second of three attempts
SecondAttemptReturned ==
    /\ pc = "listen_return"
    /\ command = "quit"
    /\ attempts = 2
    /\ max_attempts = 3

\* the retry prompt, played on tts_prompt and awaited
RetryCalls == play("prompt", Prompt("i_did_not_catch_that")) \o wait("prompt")

\* a failed attempt requests the retry prompt exactly when attempts remain,
\* and the attempt after a failed one begins only when nothing is left to
\* await and no playback thread of the prompt channel is alive
RetryPromptStep ==
    /\ (At("listen_loop") /\ ControllerStep /\ attempts < max_attempts
          /\ normalize_command(stt_text') = NoCommand) =>
           /\ pc' = "listen_loop"
           /\ todo' = IF attempts' < max_attempts THEN RetryCalls ELSE <<>>
    /\ (attempts' = attempts + 1 /\ attempts >= 1) =>
           /\ todo = <<>>
           /\ ~is_playing("prompt")
           /\ AliveThreads("prompt") = {}
    /\ (Pending("i_did_not_catch_that") /\ ~Pending("i_did_not_catch_that")') =>
           UNCHANGED attempts

\* the retry prompt is requested only between two attempts
RetryPromptPlaced ==
    Pending("i_did_not_catch_that") =>
        /\ pc \in {"listen_loop", "crashed"}
        /\ attempts \in 1..(max_attempts - 1)
        /\ normalize_command(stt_text) = NoCommand

\* C22: in listen_for_command the "try again" prompt is played on the
\* prompt channel after each failed attempt that is not the last one and
\* never after the last, and the next attempt does not begin until the
\* prompt channel has stopped playing.
RetryPromptPlacement == []RetryPromptPlaced /\ [][RetryPromptStep]_vars

\* listen_for_command has returned after a last result that was text, but
\* text that normalize_command matched to no command
UnknownHeard ==
    /\ At("listen_return")
    /\ stt_text # NoneText
    /\ normalize_command(stt_text) = NoCommand

\* C23: in voice mode, when recognition produced text that the normalizer
\* matched to no command, the controller plays the "Unknown command"
\* announcement and counts the event as a failure.
UnknownCommandAnnounced ==
    [][(UnknownHeard /\ ControllerStep) =>
           /\ failures' = failures + 1
           /\ Pending("unknown_command")']_vars

\* no tts_main.play of a sentence is among the calls q
NoSentencePlay(q) == \A i \in 1..Len(q) : ~IsSentencePlay(q[i])

\* the summary of voice mode runs below the failure ceiling and requests
\* no replay of the sentence
InVoiceSummary ==
    pc = "voice_summary" => failures < MAX_FAILURES /\ NoSentencePlay(todo)

\* the summary command enters the summary loop of voice mode; the loop
\* leaves to the head of the voice loop only, which listens again; none of
\* these steps counts a failure, changes the progress or replays
VoiceSummaryStep ==
    /\ (At("listen_return") /\ command = "summary" /\ read_so_far # <<>> /\ ControllerStep) =>
           /\ pc' = "voice_summary"
           /\ NoSentencePlay(todo')
           /\ UNCHANGED <<failures, current_index, read_so_far>>
    /\ (pc = "voice_summary" /\ ControllerStep) =>
           /\ pc' \in {"voice_summary", "voice_loop", "crashed"}
           /\ NoSentencePlay(todo')
           /\ UNCHANGED <<failures, current_index, read_so_far>>
    /\ (At("voice_loop") /\ ControllerStep /\ failures < MAX_FAILURES) =>
           /\ pc' = "listen"
           /\ todo' = <<>>

\* C24: a recognized summary command in voice mode with a non-empty
\* history runs the summary and then returns to the voice loop, which
\* calls listen_for_command again; it counts no failure and does not
\* replay the sentence on the main channel.
VoiceSummaryLoopsBack == []InVoiceSummary /\ [][VoiceSummaryStep]_vars

\* after a voice summary the controller is in listen_for_command again
ListeningAfterVoiceSummary ==
    /\ pc = "listen_loop"
    /\ detour.summarised
    /\ read_so_far # <<>>
    /\ failures = 0

\* C25: play() with an argument that is no string or names no file (the
\* call returns without going on to start a thread) starts no playback
\* thread and leaves the thread handle and the stop and pause flags of
\* every player unchanged, so an idle channel stays idle.
PlayInvalidNoOp ==
    [][(Running /\ Cur.op = "play" /\ todo' = Tail(todo)) => UNCHANGED playerVars]_vars

\* the voice-mode intro was rejected by play(): the stop flag that the
\* stop of all channels set on tts_main is still set when the controller
\* waits for the intro
IntroRejected ==
    /\ pc = "voice_loop"
    /\ todo = wait("main")
    /\ thread["main"] = 0
    /\ is_stopped["main"]

\* the controller is inside a poll of tts_main in the monitor loop
PollingMain ==
    /\ pc = "monitor"
    /\ Running
    /\ Cur.ch = "main"
    /\ Cur.op \in {"is_playing", "is_playing_alive"}

\* a decode failure leaves tts_main without a handle; a poll of an idle
\* tts_main in the monitor loop answers False; and on that answer the
\* controller appends the sentence and advances
FailureStep ==
    /\ (\E i \in AliveThreads("main") : LoadFail("main", i)) => thread'["main"] = 0
    /\ (PollingMain /\ ~is_playing("main") /\ ControllerStep) =>
           /\ pc' = "monitor"
           /\ todo' = <<>>
           /\ ~ret'
    /\ (At("monitor") /\ ~ret /\ ControllerStep) =>
           /\ pc' = "chunk_loop"
           /\ read_so_far' = Append(read_so_far, sentence)
           /\ current_index' = current_index + 1

\* C26: when speak() gives no audio for the sentence or the audio cannot be
\* decoded, the main channel ends up idle, the session neither terminates
\* nor raises, and the controller goes on as after a natural completion:
\* the sentence is appended to read_so_far and current_index advances.
FailureIsCompletion == [][FailureStep]_vars

\* a thread of tts_main returns only from the start (decode failure) or
\* after it has left the loop, and its return clears the handle
ReturnClearsHandle ==
    Len(threads'["main"]) < Len(threads["main"]) =>
        /\ thread'["main"] = 0
        /\ \E i \in AliveThreads("main") :
               /\ threads["main"][i].at \in {"load", "exit"}
               /\ threads'["main"] = Remove(threads["main"], i)

\* a thread that has left the loop writes no block any more
ExitIsFinal ==
    \A i \in AliveThreads("main") :
        (threads["main"][i].at = "exit" /\ Len(threads'["main"]) >= Len(threads["main"])) =>
            threads'["main"][i] = threads["main"][i]

\* a failed write takes the thread out of the loop
WriteFailLeaves ==
    \A i \in AliveThreads("main") :
        WriteFail("main", i) => threads'["main"][i].at = "exit"

\* play() starts a thread from the beginning with both flags cleared,
\* whatever ended the playback before
PlayStartsAfresh ==
    PlayStart =>
        /\ is_playing("main")'
        /\ threads'["main"][thread'["main"]] = NewThread
        /\ ~is_stopped'["main"] /\ ~is_paused'["main"]

Announce(name) == StopAll \o play("main", Prompt(name)) \o wait("main")

\* without sentences the controller is before the chunking or has
\* returned; only the two fixed announcements are played, on tts_main,
\* and the reading loop was never entered
NothingToRead ==
    sentences = <<>> =>
        /\ pc \in {"ocr_done", "terminated"}
        /\ current_index = 0 /\ read_so_far = <<>>
        /\ threads["summary"] = <<>> /\ threads["prompt"] = <<>>
        /\ \A i \in 1..Len(todo) :
               IsPlay(todo[i]) =>
                   /\ todo[i].ch = "main"
                   /\ todo[i].src \in {Prompt("empty_page"), Prompt("no_sentences")}

\* the step after the OCR: an empty or blank text, and a text without
\* sentences, end the session with their announcement
EmptyInputStep ==
    (At("ocr_done") /\ ControllerStep) =>
        IF strip(text) = <<>>
        THEN pc' = "terminated" /\ todo' = Announce("empty_page") /\ sentences' = <<>>
        ELSE IF split_into_sentences(text, min_len) = <<>>
             THEN pc' = "terminated" /\ todo' = Announce("no_sentences") /\ sentences' = <<>>
             ELSE pc' = "chunk_loop" /\ sentences' # <<>>

\* C28: when the OCR text is empty or whitespace-only, or chunking yields
\* no sentences, the controller plays the corresponding fixed announcement
\* and returns, without synthesizing or playing any sentence and without
\* entering the reading loop.
EmptyInputEndsCleanly == []NothingToRead /\ [][EmptyInputStep]_vars

\* C29: a call of is_playing() that interleaves with the playback thread
\* finishing still returns true or false; no interleaving of the
\* controller's polls, play() and stop() with a playback thread's exit
\* produces an error that ends the controller.
PollingNeverFatal == pc # "crashed"

\* C30: once stop() has been called on a playing TTSPlayer, the playback
\* thread that was streaming at that time writes at most one further
\* block, the one in flight, before it leaves its loop, whatever follows
\* the stop(), a play() included.
StopLatencyOneBlock ==
    \A i \in AliveThreads("main") : threads["main"][i].late <= 1

\* C40: every sentence split_into_sentences returns, other than the first,
\* has at least min_len characters; only the first can be shorter.
NonFirstLongEnough ==
    pc \in {"split_done", "split_twice"} =>
        \A k \in 2..Len(sentences) : Len(sentences[k]) >= min_len

\* a first sentence shorter than min_len is followed by a second sentence
\* that a short piece was merged into
ShortFirstLongSecond ==
    /\ pc = "split_done"
    /\ Len(sentences) = 2
    /\ Len(sentences[1]) < min_len
    /\ Len(Pieces) = 3

\* ---- a session without interrupts (SpecQuiet) -----------------------------

\* a sentence is handed to tts_main only at the head of the chunk loop, and
\* it is sentences[current_index]
PlayedInOrder ==
    (todo = <<>> /\ ~NoSentencePlay(todo')) =>
        /\ At("chunk_loop")
        /\ current_index < Len(sentences)
        /\ todo' = StopAll \o play("main", speak(sentence)) \o poll("main")
        /\ UNCHANGED current_index

\* C31: with finite playbacks and no interrupt line, a session over one or
\* more sentences eventually reaches Terminated, each sentence handed to
\* the main channel once, in index order, and read_so_far equal to the
\* whole sequence of sentences.
UninterruptedCompletes ==
    /\ [][PlayedInOrder]_vars
    /\ <>(pc = "terminated" /\ todo = <<>> /\ read_so_far = sentences /\ sentences # <<>>)

\* ---- the summary (SpecRead) -----------------------------------------------

\* a play() of audio synthesized from an answer of the summarizer
IsSummaryPlay(o) ==
    /\ IsPlay(o)
    /\ o.src[1] = "speak"
    /\ o.src[2] # <<>>
    /\ o.src[2][1] = "summarize"

\* C32: whenever the summarizer is called, its argument is the single-space
\* join of read_so_far, that is of sentences[0:current_index]; the
\* interrupted sentence and the later ones are no part of it, and the
\* summary audio is played on the summary channel only.
SummaryOfHistory ==
    \A i \in 1..Len(todo) :
        /\ IsSummaryPlay(todo[i]) =>
               /\ todo[i].ch = "summary"
               /\ todo[i].src = speak(summarize(JoinSpace(read_so_far)))
               /\ read_so_far = SubSeq(sentences, 1, current_index)
               /\ current_index < Len(sentences)
        /\ (IsPlay(todo[i]) /\ todo[i].ch = "summary") => IsSummaryPlay(todo[i])

\* the summary of the first sentence is about to be played while the
\* second sentence is the interrupted one
SummaryOfFirstPending ==
    /\ current_index = 1
    /\ todo # <<>>
    /\ IsSummaryPlay(Head(todo))

\* ---- the pause menu (SpecRead) --------------------------------------------

\* the controller reads a choice that is none of r, m, q: nothing but its
\* position changes
InvalidChoiceRead ==
    (pc # "pause_invalid" /\ pc' = "pause_invalid") =>
        /\ At("pause_menu")
        /\ todo' = <<>>
        /\ UNCHANGED <<playerVars, dataVars>>

\* after "Invalid option." the controller is at the menu again, with no
\* TTSPlayer call requested and the progress as it was
InvalidChoiceBack ==
    (pc = "pause_invalid" /\ ControllerStep) =>
        /\ pc' = "pause_menu"
        /\ todo = <<>> /\ todo' = <<>>
        /\ UNCHANGED <<playerVars, dataVars>>

\* C33: a pause-menu choice other than r, m, q leaves the controller in the
\* pause menu with current_index, read_so_far and the three channels as
\* they were; the menu is offered again, and no number of invalid choices
\* terminates the session or resumes reading.
InvalidChoiceIgnored == [][InvalidChoiceRead /\ InvalidChoiceBack]_vars

\* an invalid choice was read while the second sentence is interrupted
InvalidChoiceAtSecond ==
    /\ pc = "pause_invalid"
    /\ current_index = 1
    /\ read_so_far # <<>>

\* ---- completion of a sentence (SpecRead) ----------------------------------

\* (a thread with late = -1 was started by the latest play() and no stop()
\* was requested since)
\* C34: the controller appends a sentence to read_so_far and advances
\* current_index only when no playback thread of the main channel is still
\* streaming; the exit of an older thread after a newer play() does not
\* make the poll report false while the newer playback runs.
CompletionIsSound ==
    [][(At("monitor") /\ current_index' = current_index + 1) =>
           \A i \in StreamingThreads("main") : threads["main"][i].late >= 0]_vars

\* ---- play() after stop(), pause(), resume() (SpecPlayer) ------------------

\* play() starts its thread at frame 0 with both flags cleared
StartsWithFlagsClear ==
    (Running /\ Cur.op = "play_start" /\ todo' = Tail(todo)) =>
        /\ ~is_stopped'["main"]
        /\ ~is_paused'["main"]
        /\ thread'["main"] = Len(threads'["main"])
        /\ Len(threads'["main"]) = Len(threads["main"]) + 1
        /\ threads'["main"][thread'["main"]].at = "load"
        /\ threads'["main"][thread'["main"]].frame_index = 0

\* a flag is set in a call of stop() (play() calls it) or pause() only
FlagsSetByCalls ==
    /\ (is_stopped'["main"] /\ ~is_stopped["main"]) =>
           (Running /\ Cur.op \in {"stop", "play"})
    /\ (is_paused'["main"] /\ ~is_paused["main"]) =>
           (Running /\ Cur.op = "pause")

\* with both flags clear a thread in the loop neither pauses nor leaves the
\* loop before its last block, unless a write fails: it goes on with the
\* next block (a thread that pause() had caught goes on where it was)
StreamsWhileClear ==
    \A i \in AliveThreads("main") :
        LET r == threads["main"][i] IN
        (/\ ~is_stopped["main"] /\ ~is_paused["main"]
         /\ UNCHANGED <<is_stopped, is_paused>>
         /\ Len(threads'["main"]) = Len(threads["main"])
         /\ threads'["main"][i] # r
         /\ r.late = -1) =>
            \/ /\ r.at = "load"
               /\ threads'["main"][i].at = "write"
               /\ threads'["main"][i].frame_index = 0
            \/ /\ r.at = "write"
               /\ r.frame_index + BLOCKSIZE < r.total_frames
               /\ threads'["main"][i].at = "write"
               /\ threads'["main"][i].frame_index = r.frame_index + BLOCKSIZE
            \/ /\ r.at = "paused"
               /\ threads'["main"][i].at = "write"
               /\ threads'["main"][i].frame_index = r.frame_index
            \/ /\ r.at = "write"
               /\ threads'["main"][i] = Left

\* C35: play() with a valid source clears the stop and the pause flag
\* before it starts its thread, so that after any stop(), pause() or
\* resume() before it the new playback streams from frame 0 to the end,
\* unless stop() or pause() is called after that play().
PlayClearsFlags == [][StartsWithFlagsClear /\ FlagsSetByCalls /\ StreamsWhileClear]_vars

\* the thread of the latest play() is writing its second block while a
\* thread that was told to stop is still alive
NewPlaybackStreams ==
    /\ thread["main"] # 0
    /\ Alive("main", thread["main"])
    /\ threads["main"][thread["main"]].at = "write"
    /\ threads["main"][thread["main"]].frame_index = BLOCKSIZE
    /\ threads["main"][thread["main"]].late = -1
    /\ \E i \in AliveThreads("main") : threads["main"][i].late >= 0

\* ---- stop() of a paused playback (SpecPlayer) -----------------------------

\* C36: when stop() is called on a paused player, the playback thread
\* leaves its loop and exits without writing another block; a paused
\* playback does not survive a stop().
StopEndsPaused ==
    [][\A i \in AliveThreads("main") :
           (threads["main"][i].late = 0 /\ Len(threads'["main"]) = Len(threads["main"])) =>
               threads'["main"][i].at # "write"]_vars

\* ---- the order of the sentences (SpecRead) --------------------------------

\* current_index stays or grows by one, and it grows in the step that
\* appends the sentence at that index to read_so_far
IndexStep ==
    /\ current_index' \in {current_index, current_index + 1}
    /\ current_index' = current_index + 1 =>
           /\ current_index < Len(sentences)
           /\ read_so_far' = Append(read_so_far, sentences[current_index + 1])

\* every sentence handed to tts_main is the one at current_index, all the
\* sentences before it are in read_so_far, and none after it is
OnlyCurrentSentence ==
    /\ current_index <= Len(sentences)
    /\ read_so_far = SubSeq(sentences, 1, current_index)
    /\ \A i \in 1..Len(todo) :
           IsSentencePlay(todo[i]) =>
               /\ current_index < Len(sentences)
               /\ todo[i].src = speak(sentences[current_index + 1])

\* C37: current_index never decreases and changes only by +1; the
\* sentences are handed to the main channel in non-decreasing index order,
\* sentence i+1 is never synthesized or played before sentence i has been
\* appended to read_so_far, and no path skips a sentence.
SentencesInOrder == []OnlyCurrentSentence /\ [][IndexStep]_vars

\* the second sentence is about to be played, the first one read
SecondSentenceNext ==
    /\ Len(sentences) >= 2
    /\ current_index = 1
    /\ read_so_far = <<sentences[1]>>
    /\ \E i \in 1..Len(todo) : todo[i] = Op("play", "main", speak(sentences[2]))

\* ---- the replay on the way back to reading (SpecRead) ---------------------

\* the positions in the calls q of tts_main.play(speak(sentence))
Replays(q) == {i \in 1..Len(q) : q[i] = Op("play", "main", speak(sentence))}

\* choice r: one replay, then the monitor loop
PauseResumeReplaysOnce ==
    (At("pause_menu") /\ pc' = "monitor") => Cardinality(Replays(todo')) = 1

\* the voice loop is left by break after the command resume, with one
\* replay and failures below the ceiling, or by its condition, with no
\* replay yet and failures at the ceiling
VoiceLoopLeft ==
    (pc # "voice_exit" /\ pc' = "voice_exit") =>
        \/ /\ At("listen_return")
           /\ command = "resume"
           /\ failures < MAX_FAILURES
           /\ Cardinality(Replays(todo')) = 1
        \/ /\ At("voice_loop")
           /\ failures >= MAX_FAILURES
           /\ todo' = <<>>

\* after the voice loop the fallback replays once when failures reached
\* the ceiling, and nothing is replayed otherwise
FallbackOnlyAtCeiling ==
    (At("voice_exit") /\ ControllerStep) =>
        /\ pc' = "monitor"
        /\ UNCHANGED <<current_index, read_so_far, failures>>
        /\ Cardinality(Replays(todo')) = IF failures >= MAX_FAILURES THEN 1 ELSE 0

\* C38: each exit from the pause menu by resume, and each exit from voice
\* control by the resume command or by the failure ceiling, issues exactly
\* one tts_main.play of the current sentence; the voice resume does not
\* trigger the fallback replay as well, which runs only with
\* failures >= MAX_FAILURES.
OneReplayPerReturn ==
    [][PauseResumeReplaysOnce /\ VoiceLoopLeft /\ FallbackOnlyAtCeiling]_vars

\* the voice loop was left by the resume command and the replay has been
\* requested: the test of the fallback is next
VoiceResumeReplayed ==
    /\ At("voice_exit")
    /\ command = "resume"
    /\ failures < MAX_FAILURES

\* ---- the poll before the key (SpecRead) -----------------------------------

\* the poll returned False: whatever is on stdin, the controller breaks,
\* appends the sentence and advances, with no TTSPlayer call
NotPlayingCompletes ==
    (At("monitor") /\ ~ret /\ ControllerStep) =>
        /\ pc' = "chunk_loop"
        /\ todo' = <<>>
        /\ current_index' = current_index + 1
        /\ read_so_far' = Append(read_so_far, sentence)

\* a key is read only after a poll that returned True, and the interrupt
\* is for the sentence at current_index, which is not in read_so_far
KeyAfterPoll ==
    (At("monitor") /\ pc' \in {"pause_menu", "voice_loop"}) =>
        /\ ret
        /\ current_index < Len(sentences)
        /\ Len(read_so_far) = current_index
        /\ detour'.idx = current_index
        /\ UNCHANGED <<current_index, read_so_far>>

\* C39: when tts_main is no longer playing at the poll of the monitor loop,
\* the sentence counts as completed even with an interrupt line pending;
\* the line is not read at that poll and is handled, if at all, while the
\* next sentence plays; a pause or voice request never goes back to a
\* completed sentence.
CompletionBeforeKey == [][NotPlayingCompletes /\ KeyAfterPoll]_vars

\* the poll of the second sentence returned False
SecondSentenceEnded ==
    /\ At("monitor")
    /\ ~ret
    /\ current_index = 1
    /\ Len(sentences) = 2

====
